---- MODULE Spec2Model ----
(***************************************************************************)
(* The session layer of simple_game_server.py: the connected_players       *)
(* dictionary, the per-socket coroutines (websocket_endpoint ->            *)
(* connect_player -> handle_websocket_message), the movement and chat      *)
(* handlers, the two broadcast loops, disconnect_player and the per-player *)
(* JSON files.  A coroutine runs without interruption from one awaited     *)
(* I/O operation (accept, send_text, receive_text) to the next; every      *)
(* action below is one such run.                                           *)
(***************************************************************************)
EXTENDS Integers, Sequences, FiniteSets, TLC

\* ------------------------------------------------------------------ bounds
NumPlayers == 3
MaxSockets == 3
MaxChats == 1
\* The coroutines that may be inside connect_player or a handler at once.
MaxInFlight == 2
\* The sockets of the specification of one player's data.
DataSockets == 2

Players == 1..NumPlayers
Sockets == 1..MaxSockets

\* ------------------------------------------------------- JSON values
\* A coordinate as it arrives in a message or sits in a Position: a number,
\* a non-numeric JSON value, or (in a message only) an absent key.
Num(n) == [t |-> "num", v |-> n]
NotNum == [t |-> "str", v |-> 0]
Absent == [t |-> "absent", v |-> 0]
IsNum(c) == c.t = "num"

\* ------------------------------------------------------------- regions
Regions ==
  {"dust_plains", "himalayan_peaks", "indrapura_city", "narmada_forest", "ocean_frontier"}

\* REGION_INFO's boundaries, in the dictionary's insertion order.
REGION_INFO == <<
  [region |-> "dust_plains",     x_min |-> -500, x_max |-> -200, z_min |-> -500, z_max |-> 500],
  [region |-> "himalayan_peaks", x_min |-> -500, x_max |-> 500,  z_min |-> 200,  z_max |-> 500],
  [region |-> "indrapura_city",  x_min |-> -200, x_max |-> 200,  z_min |-> -100, z_max |-> 200],
  [region |-> "narmada_forest",  x_min |-> -500, x_max |-> 500,  z_min |-> -500, z_max |-> -100],
  [region |-> "ocean_frontier",  x_min |-> 200,  x_max |-> 500,  z_min |-> -500, z_max |-> 500] >>

TypeError == "TypeError"

\* The loop of determine_region from the i-th region on.  Comparing a
\* non-number with a bound raises TypeError; z is compared only when the x
\* range matched (the chained comparison short-circuits).
RECURSIVE RegionFrom(_, _, _)
RegionFrom(i, x, z) ==
  IF i > Len(REGION_INFO) THEN "ocean_frontier"
  ELSE LET b == REGION_INFO[i] IN
       IF ~IsNum(x) THEN TypeError
       ELSE IF b.x_min <= x.v /\ x.v <= b.x_max
            THEN IF ~IsNum(z) THEN TypeError
                 ELSE IF b.z_min <= z.v /\ z.v <= b.z_max THEN b.region
                      ELSE RegionFrom(i + 1, x, z)
            ELSE RegionFrom(i + 1, x, z)

determine_region(x, z) == RegionFrom(1, x, z)

\* ------------------------------------------------------------- players
\* f"Player_{player_id[:8]}"
DefaultName(p) == <<"Player_", p>>
NoQueryName == <<"", 0>>
QueryNames == {<<"Alice", 0>>}

\* The ghost field wr names, per coordinate, the coroutine whose movement
\* handler wrote it last (0: the constructor).
NewWr == [x |-> 0, y |-> 0, z |-> 0]

NoPlayer ==
  [player_id |-> 0, name |-> NoQueryName, x |-> Num(0), y |-> Num(0), z |-> Num(0),
   current_region |-> "ocean_frontier", level |-> 1, experience |-> 0,
   regions_visited |-> <<>>, quests_completed |-> <<>>, wr |-> NewWr]

NoFile == [exists |-> FALSE]

\* load_player_data: the file's content, or the default player data.
load_player_data(fs, p) ==
  IF fs[p].exists THEN fs[p]
  ELSE [exists |-> TRUE, name |-> DefaultName(p),
        x |-> Num(0), y |-> Num(0), z |-> Num(0),
        level |-> 1, experience |-> 0,
        regions_visited |-> <<"ocean_frontier">>, quests_completed |-> <<>>]

\* save_player_data: what json.dump writes for a player.
PlayerData(pl) ==
  [exists |-> TRUE, name |-> pl.name, x |-> pl.x, y |-> pl.y, z |-> pl.z,
   level |-> pl.level, experience |-> pl.experience,
   regions_visited |-> pl.regions_visited, quests_completed |-> pl.quests_completed]

save_player_data(fs, pl) == [fs EXCEPT ![pl.player_id] = PlayerData(pl)]

\* The Player(...) built in connect_player from the loaded data: every
\* field comes from player_data, the query-string name only when the data
\* has no "name" key (load_player_data always gives one).
NewPlayer(p, player_data, player_name) ==
  [player_id |-> p,
   name |-> IF "name" \in DOMAIN player_data THEN player_data.name ELSE player_name,
   x |-> player_data.x, y |-> player_data.y, z |-> player_data.z,
   current_region |-> "ocean_frontier",
   level |-> player_data.level, experience |-> player_data.experience,
   regions_visited |-> player_data.regions_visited,
   quests_completed |-> player_data.quests_completed, wr |-> NewWr]

\* ------------------------------------------------- the players dictionary
\* connected_players as CPython keeps it: the entries in insertion order, a
\* deleted entry left in place as a dummy.  (A dictionary's first five new
\* keys never resize it, and no socket connects twice.)
Dummy == [k |-> 0, v |-> 0]
Live(es) == {i \in 1..Len(es) : es[i].k # 0}
Keys(es) == {es[i].k : i \in Live(es)}
Used(es) == Cardinality(Live(es))
IndexOf(es, p) == CHOOSE i \in Live(es) : es[i].k = p
Lookup(es, p) == es[IndexOf(es, p)].v
DictSet(es, p, o) ==
  IF p \in Keys(es) THEN [es EXCEPT ![IndexOf(es, p)].v = o]
  ELSE Append(es, [k |-> p, v |-> o])
\* connected_players.clear(), which is not what the code does.
DictClear(es, p) == [i \in 1..Len(es) |-> Dummy]
\* del connected_players[p]: the entry becomes a dummy, the others stay put.
DictDel(es, p) == [es EXCEPT ![IndexOf(es, p)] = Dummy]


\* ------------------------------------------------------------- messages
\* An inbound text frame, as json.loads and message.get("type") see it.
InMsg(type, x, y, z, text) == [type |-> type, x |-> x, y |-> y, z |-> z, text |-> text]
Movement(x, y, z) == InMsg("movement", x, y, z, "")
MoveMsgs ==
  { Movement(Num(0), Num(0), Num(0)),
    Movement(Num(300), Num(5), Num(0)),
    Movement(Num(-300), Absent, Absent),
    Movement(NotNum, Num(5), Num(0)) }
OtherMsgs == { InMsg("malformed", Absent, Absent, Absent, ""),
               InMsg("unknown", Absent, Absent, Absent, "") }
\* The inputs of the specification of one player's data.
DataMsgs == MoveMsgs \cup OtherMsgs
\* The inputs of the specification that runs three sessions side by side.
MainMsgs ==
  { Movement(Num(0), Num(0), Num(0)),
    InMsg("chat", Absent, Absent, Absent, "hi"),
    InMsg("chat", Absent, Absent, Absent, " "),
    InMsg("malformed", Absent, Absent, Absent, "") }
NoMsg == InMsg("none", Absent, Absent, Absent, "")
WellFormed(m) == m.type = "movement" /\ IsNum(m.x) /\ IsNum(m.y) /\ IsNum(m.z)

\* str.strip() on the modelled texts.
Strip(t) == IF t = " " THEN "" ELSE t

\* An outbound broadcast, as the dict handed to json.dumps.
OutMsg(type, p, name, x, y, z, region, text) ==
  [type |-> type, player_id |-> p, name |-> name, x |-> x, y |-> y, z |-> z,
   region |-> region, text |-> text]
PlayerJoined(pl) ==
  OutMsg("player_joined", pl.player_id, pl.name, Absent, Absent, Absent, pl.current_region, "")
PlayerLeft(pl) ==
  OutMsg("player_left", pl.player_id, pl.name, Absent, Absent, Absent, "", "")
PlayerMoved(p, pl) ==
  OutMsg("player_moved", p, NoQueryName, pl.x, pl.y, pl.z, pl.current_region, "")
ChatMessage(p, pl, text) ==
  OutMsg("chat_message", p, pl.name, Absent, Absent, Absent, pl.current_region, text)

\* "Keep last 50 messages" (handle_chat_message, save_game_data).
ChatLimit == 50
LastN(q, n) == IF Len(q) <= n THEN q ELSE SubSeq(q, Len(q) - n + 1, Len(q))

\* handle_chat_message's "Add to history": append, then one pop(0) when the
\* list has grown past the limit.
AppendOnly(history, chat_message) == Append(history, chat_message)
AddToHistory(history, chat_message) ==
  LET appended == Append(history, chat_message)
  IN IF Len(appended) > ChatLimit THEN Tail(appended) ELSE appended

\* ------------------------------------------- blackhole_event_system.py
\* Python's None, and what an `if v:` takes for true among None and strings.
None == "None"
Truthy(v) == v # None /\ v # ""

\* The keys of self.exclusive_classes, and the class ids callers pass.
ExclusiveClassIds ==
  {"void_emperor", "celestial_harbinger", "shadow_sovereign", "fairy_monarch",
   "undead_overlord"}
ClassIdArgs == ExclusiveClassIds \cup {"time_lord"}
\* player_id: str.
PlayerIds == {"", "arjuna", "bhima"}

\* BlackholeEventSystem after __init__: no class has a holder.  ret is the
\* last call's return value, log the calls made so far.
NewBlackhole ==
  [holder |-> [c \in ExclusiveClassIds |-> None], ret |-> [r |-> "none"], log |-> <<>>]

\* grant_exclusive_class has no await: one call is one step.
grant_exclusive_class(B, player_id, class_id) ==
  IF class_id \notin ExclusiveClassIds
    THEN [B EXCEPT !.ret = [error |-> "Exclusive class not found"]]
  ELSE IF Truthy(B.holder[class_id])
    THEN [B EXCEPT !.ret = [error |-> "Class already taken"]]
  ELSE [B EXCEPT !.holder[class_id] = player_id,
                 !.ret = [success |-> TRUE, class_granted |-> class_id]]

\* check_exclusive_class_eligibility up to its requirement loop, which reads
\* the player record and changes nothing.
check_exclusive_class_eligibility(B, class_id) ==
  IF class_id \notin ExclusiveClassIds
    THEN [B EXCEPT !.ret = [error |-> "Exclusive class not found"]]
  ELSE IF Truthy(B.holder[class_id])
    THEN [B EXCEPT !.ret = [eligible |-> FALSE, held_by |-> B.holder[class_id]]]
  ELSE [B EXCEPT !.ret = [class_info |-> class_id]]

\* ------------------------------------------------- ai_3d_model_agent.py
\* ModelRequest: content type and name (the format is the default, glb).
Requests ==
  {[content_type |-> "weapon", content_name |-> "Sword"],
   [content_type |-> "npc", content_name |-> "Monk"]}

\* hashlib.md5(...).hexdigest()[:8]: the texts hashed here are few and have
\* different digests, so the digest is written as the text itself.
Md5(text) == text
generate_model_id(content_name, content_type) ==
  content_type \o "_" \o Md5(content_type \o "_" \o content_name)

\* _get_preferred_services_for_content.
default_order ==
  <<"luma_ai_genie", "meshy_ai", "kaedim", "scenario_gg", "openai_shap_e",
    "replicate_dreamfusion", "local_blender">>
preferences ==
  [weapon |-> <<"luma_ai_genie", "meshy_ai", "kaedim", "scenario_gg">>,
   beast |-> <<"meshy_ai", "kaedim", "luma_ai_genie", "scenario_gg">>,
   divine_entity |-> <<"kaedim", "luma_ai_genie", "meshy_ai", "scenario_gg">>,
   character |-> <<"kaedim", "meshy_ai", "luma_ai_genie">>,
   environment |-> <<"meshy_ai", "scenario_gg", "luma_ai_genie">>,
   prop |-> <<"luma_ai_genie", "scenario_gg", "meshy_ai">>]
PreferredServices(content_type) ==
  IF content_type \in DOMAIN preferences THEN preferences[content_type] ELSE default_order

\* self.ai_services[...]["available"]: four services are always available,
\* the other three when their package or program is installed.
AlwaysAvailable == {"luma_ai_genie", "meshy_ai", "kaedim", "scenario_gg"}
Installable == {"openai_shap_e", "replicate_dreamfusion", "local_blender"}
\* The generators that pass generation_metadata=..., a keyword ModelMetadata
\* does not have: their ModelMetadata(...) raises TypeError.
PassGenerationMetadata == {"luma_ai_genie", "meshy_ai", "kaedim", "scenario_gg"}
FileSuffix ==
  [luma_ai_genie |-> "_luma", meshy_ai |-> "_meshy", kaedim |-> "_kaedim",
   scenario_gg |-> "_scenario", openai_shap_e |-> "_ai", local_blender |-> "_blender"]

\* ModelSource(value), and ModelMetadata by the fields that tell records apart.
ModelSource(value) == [value |-> value]
Metadata(model_id, source, suffix) ==
  [model_id |-> model_id, source |-> ModelSource(source),
   file_path |-> model_id \o suffix \o ".glb"]
NoRet == [r |-> "none"]
FileNotFound == [raised |-> "FileNotFoundError"]
IsMetadata(r) == "model_id" \in DOMAIN r

\* One call of get_or_create_model: where it waits, and a ghost record of
\* what it found cached when it started and of what it has done since.
NoCall ==
  [pc |-> "idle", request |-> [content_type |-> "", content_name |-> ""], model_id |-> "",
   i |-> 0, ret |-> NoRet, hit |-> FALSE, was |-> NoRet, made |-> {},
   at_return |-> NoRet]

\* No AI3DModelAgent yet: the disk is empty.  directories: whether the model
\* directories exist (LOCAL_MODE=1), files: the model files on disk.
NumCalls == 3
Calls == 1..NumCalls
NoAgent ==
  [up |-> FALSE, directories |-> FALSE, available |-> {}, model_cache |-> <<>>,
   files |-> {}, metadata_file |-> <<>>, call |-> [c \in Calls |-> NoCall]]

Cached(A, model_id) == \E k \in 1..Len(A.model_cache) : A.model_cache[k].model_id = model_id
CacheGet(A, model_id) ==
  A.model_cache[CHOOSE k \in 1..Len(A.model_cache) : A.model_cache[k].model_id = model_id]
CacheDel(cache, model_id) == SelectSeq(cache, LAMBDA r : r.model_id # model_id)
\* self.model_cache[model_id] = metadata: a present key keeps its place.
CachePut(cache, r) ==
  IF \E k \in 1..Len(cache) : cache[k].model_id = r.model_id
    THEN [k \in 1..Len(cache) |-> IF cache[k].model_id = r.model_id THEN r ELSE cache[k]]
    ELSE Append(cache, r)

\* save_metadata writes each record with its source's value; the directory is
\* missing unless local, and the error is caught.  load_metadata reads the
\* file back, if there is one.
save_metadata(A) ==
  IF A.directories
    THEN [A EXCEPT !.metadata_file =
            [k \in 1..Len(A.model_cache) |-> [A.model_cache[k] EXCEPT !.source = @.value]]]
    ELSE A
load_metadata(A) ==
  [A EXCEPT !.model_cache =
     [k \in 1..Len(A.metadata_file) |-> [A.metadata_file[k] EXCEPT !.source = ModelSource(@)]]]

\* The end of get_or_create_model; at_return is a ghost: whether the record's
\* file is on disk and the record is the cached one as the call returns.
Returned(A, c, metadata) ==
  LET B == save_metadata([A EXCEPT !.model_cache = CachePut(@, metadata)])
  IN [B EXCEPT !.call[c].pc = "done", !.call[c].ret = metadata,
               !.call[c].at_return =
                 [written |-> metadata.file_path \in B.files,
                  cached |-> Cached(B, metadata.model_id)
                             /\ CacheGet(B, metadata.model_id) = metadata]]

\* _create_placeholder_model: write_text is in no try.
create_placeholder_model(A, c) ==
  LET B == [A EXCEPT !.call[c].made = @ \cup {"placeholder"}]
      m == Metadata(A.call[c].model_id, "placeholder", "_placeholder")
  IN IF A.directories
       THEN Returned([B EXCEPT !.files = @ \cup {m.file_path}], c, m)
       ELSE [B EXCEPT !.call[c].pc = "done", !.call[c].ret = FileNotFound]

\* _try_ai_generation from the i-th preferred service on: up to the sleep of
\* the next available generator, or on to the placeholder.
RECURSIVE try_ai_generation(_, _, _)
try_ai_generation(A, c, i) ==
  LET services == PreferredServices(A.call[c].request.content_type)
  IN IF i > Len(services) THEN create_placeholder_model(A, c)
     ELSE IF services[i] \notin A.available \/ services[i] = "replicate_dreamfusion"
       THEN try_ai_generation(A, c, i + 1)
     ELSE [A EXCEPT !.call[c].pc = "generate", !.call[c].i = i]

\* A generator after its sleep.
Generated(A, c) ==
  LET i == A.call[c].i
      service == PreferredServices(A.call[c].request.content_type)[i]
      m == Metadata(A.call[c].model_id, "generated_ai", FileSuffix[service])
      B == [A EXCEPT !.call[c].made = @ \cup {"generate"}]
  IN IF ~A.directories THEN try_ai_generation(B, c, i + 1)
     ELSE IF service \in PassGenerationMetadata
       THEN try_ai_generation([B EXCEPT !.files = @ \cup {m.file_path}], c, i + 1)
     ELSE Returned([B EXCEPT !.files = @ \cup {m.file_path}], c, m)

\* _download_model after its sleep; poly_haven finds nothing.
Downloaded(A, c) ==
  LET m == Metadata(A.call[c].model_id, "downloaded_online", "")
      B == [A EXCEPT !.call[c].made = @ \cup {"download"}]
  IN IF A.directories
       THEN Returned([B EXCEPT !.files = @ \cup {m.file_path}], c, m)
       ELSE try_ai_generation(B, c, 1)

\* After the cache check: _try_download_online, where found says whether
\* the Sketchfab search returned a result.
CreateNew(A, c, found) ==
  IF found THEN [A EXCEPT !.call[c].pc = "download"] ELSE try_ai_generation(A, c, 1)

\* A call as it starts; hit and was are ghosts: whether the model is cached
\* with its file on disk, and the cached record.
NewCall(A, request) ==
  LET model_id == generate_model_id(request.content_name, request.content_type)
      hit == Cached(A, model_id) /\ CacheGet(A, model_id).file_path \in A.files
  IN [NoCall EXCEPT !.request = request, !.model_id = model_id, !.hit = hit,
                    !.was = IF hit THEN CacheGet(A, model_id) ELSE NoRet]

\* get_or_create_model without its cache check.
GetOrCreateUncached(A, c, request, found) ==
  CreateNew([A EXCEPT !.call[c] = NewCall(A, request)], c, found)

\* get_or_create_model up to its first await.
get_or_create_model(A, c, request, found) ==
  LET model_id == generate_model_id(request.content_name, request.content_type)
      B == [A EXCEPT !.call[c] = NewCall(A, request)]
  IN IF Cached(A, model_id)
       THEN IF CacheGet(A, model_id).file_path \in A.files
              THEN [B EXCEPT !.call[c].pc = "done", !.call[c].ret = CacheGet(A, model_id)]
              ELSE CreateNew([B EXCEPT !.model_cache = CacheDel(@, model_id)], c, found)
       ELSE CreateNew(B, c, found)

\* --------------------- procedural_generator.py, procedural_integration.py
\* A few of the components random.choice draws from.
roles == {"Oracle"}
elements == {"Fire", "Void"}
themes == {"Blood"}
weapon_types == {"Sword"}
materials == {"Iron", "Ether"}
enchantments == {"Burning"}
base_creatures == {"Dragon"}
creature_modifiers == {"Voidmaw"}
origins == {"Abyssal"}
domains == {"War"}
divine_forms == {"Mask"}
alignments == {"Neutral"}

PyNone == [py |-> "None"]
Score(b, n) == IF b THEN n ELSE 0
Min(a, b) == IF a < b THEN a ELSE b

\* _calculate_job_class_rarity: rarity_map.get(rarity_score, COMMON).
calculate_job_class_rarity(element, theme, role) ==
  LET rarity_score ==
        Score(element \in {"Void", "Cosmic", "Temporal", "Divine", "Infernal"}, 2)
        + Score(theme \in {"Time", "Dreams", "Chaos", "Fate", "Madness", "Eclipse"}, 2)
        + Score(role \in {"Exotic", "Shadowmancer", "Oracle", "Bladedancer"}, 2)
  IN <<"common", "uncommon", "rare", "epic", "legendary", "mythical", "divine">>[rarity_score + 1]
calculate_weapon_rarity(enchantment, material) ==
  LET rarity_score ==
        Score(material \in {"Ether", "Void", "Star", "Soul", "Dream", "Time"}, 2)
        + Score(enchantment \in {"Screaming", "Whispering", "Eternal", "Ancient"}, 1)
  IN <<"common", "uncommon", "rare", "epic", "legendary">>[Min(rarity_score, 4) + 1]
calculate_beast_rarity(modifier, creature, origin) ==
  LET rarity_score ==
        Score(creature \in {"Dragon", "Phoenix", "Leviathan", "Kraken", "Sphinx"}, 2)
        + Score(origin \in {"Divine", "Infernal", "Temporal", "Astral"}, 2)
        + Score(modifier \in {"Voidmaw", "Dream-Eater"}, 1)
  IN <<"common", "uncommon", "rare", "epic", "legendary">>[Min(rarity_score, 4) + 1]
calculate_divine_rarity(domain, form, alignment) ==
  LET rarity_score ==
        Score(domain \in {"Time", "War", "Death", "Life", "Chaos"}, 2)
        + Score(form \in {"Crown", "Eye", "Void", "Heart"}, 1)
        + Score(alignment \in {"Ascended", "Fallen"}, 1)
  IN <<"rare", "epic", "legendary", "mythical", "divine">>[Min(rarity_score, 4) + 1]

\* The generated records, by their id, name parts and rarity.
JobClass(element, theme, role) ==
  [id |-> <<"class", element, theme, role>>,
   rarity |-> calculate_job_class_rarity(element, theme, role)]
Weapon(enchantment, material, type) ==
  [id |-> <<"weapon", enchantment, material, type>>,
   rarity |-> calculate_weapon_rarity(enchantment, material)]
Beast(modifier, creature, origin) ==
  [id |-> <<"beast", modifier, creature, origin>>,
   rarity |-> calculate_beast_rarity(modifier, creature, origin)]
DivineEntity(form, domain, alignment) ==
  [id |-> <<"divine", form, domain, alignment>>,
   rarity |-> calculate_divine_rarity(domain, form, alignment)]

\* What one random draw of each kind can be.
JobClassDraws == {JobClass(e, t, r) : e \in elements, t \in themes, r \in roles}
WeaponDraws == {Weapon(e, m, t) : e \in enchantments, m \in materials, t \in weapon_types}
BeastDraws == {Beast(m, c, o) : m \in creature_modifiers, c \in base_creatures, o \in origins}
DivineDraws == {DivineEntity(f, d, a) : f \in divine_forms, d \in domains, a \in alignments}

\* ProceduralGenerator: the four generated_* dictionaries, a record per id.
NewGenerator == [job_classes |-> {}, weapons |-> {}, beasts |-> {}, divine_entities |-> {}]
generate_job_class(G, d) == [G EXCEPT !.job_classes = @ \cup {d}]
generate_weapon(G, d) == [G EXCEPT !.weapons = @ \cup {d}]
generate_beast(G, d) == [G EXCEPT !.beasts = @ \cup {d}]
generate_divine_entity(G, d) == [G EXCEPT !.divine_entities = @ \cup {d}]

\* generate_bulk_content makes 200, 300, 250 and 100 draws; here BulkCount of
\* each kind, given as the sequences of what was drawn.
BulkCount == 2
RECURSIVE BulkFrom(_, _, _)
BulkFrom(G, draws, n) ==
  IF n > BulkCount THEN G
  ELSE BulkFrom(generate_divine_entity(generate_beast(generate_weapon(
                  generate_job_class(G, draws.job_classes[n]), draws.weapons[n]),
                  draws.beasts[n]), draws.divine_entities[n]),
                draws, n + 1)
generate_bulk_content(G, draws) == BulkFrom(G, draws, 1)
BulkDraws ==
  [job_classes : [1..BulkCount -> JobClassDraws], weapons : [1..BulkCount -> WeaponDraws],
   beasts : [1..BulkCount -> BeastDraws], divine_entities : [1..BulkCount -> DivineDraws]]

\* ProceduralContentManager after __init__; an empty content_cache has no
\* job classes to get.  ret is the last call's return value.
NewManager ==
  [generator |-> NewGenerator, content_cache |-> NewGenerator, is_initialized |-> FALSE,
   ret |-> [f |-> "__init__", value |-> PyNone]]

\* A cache update that copies nothing.
UpdateNothing(M) == M
update_content_cache(M) == [M EXCEPT !.content_cache = M.generator]

initialize(M, draws) ==
  [update_content_cache([M EXCEPT !.generator = generate_bulk_content(@, draws)])
     EXCEPT !.is_initialized = TRUE, !.ret = [f |-> "initialize", value |-> TRUE]]

get_random_job_class(M, d) ==
  IF M.content_cache.job_classes = {} THEN [M EXCEPT !.ret = PyNone]
  ELSE [M EXCEPT !.generator = generate_job_class(@, d), !.ret = d]
get_random_weapon(M, d) == [M EXCEPT !.generator = generate_weapon(@, d), !.ret = d]
get_random_beast(M, d) == [M EXCEPT !.generator = generate_beast(@, d), !.ret = d]
get_random_divine_entity(M, d) ==
  [M EXCEPT !.generator = generate_divine_entity(@, d), !.ret = d]

\* generate_quest_content: the four getters in the order of the dictionary.
generate_quest_content(M, w, b, e, j) ==
  LET M1 == get_random_weapon(M, w)
      M2 == get_random_beast(M1, b)
      M3 == get_random_divine_entity(M2, e)
      M4 == get_random_job_class(M3, j)
  IN [M4 EXCEPT !.ret = [reward_weapon |-> M1.ret, quest_beast |-> M2.ret,
                         patron_divine |-> M3.ret, unlock_class |-> M4.ret]]

\* ------------------------------------------------ ancient_bharat_server.py
\* The websockets clients open, taken in order, and the player ids they send.
BharatSockets == 3
WebSockets == 1..BharatSockets
BharatIds == {"arjuna", "bhima"}

\* AncientBharatServer after __init__.  players keeps the dictionary's order;
\* live holds the websockets whose send_text still succeeds, endpoint what
\* each websocket_endpoint coroutine is doing and for which player id.
NewBharat ==
  [players |-> <<>>, connections |-> <<>>, live |-> {},
   endpoint |-> [w \in WebSockets |-> [at |-> "new", player_id |-> ""]]]

InPlayers(B, p) == \E i \in 1..Len(B.players) : B.players[i].player_id = p
WebsocketOf(B, p) ==
  B.players[CHOOSE i \in 1..Len(B.players) : B.players[i].player_id = p].websocket
InList(q, w) == \E i \in 1..Len(q) : q[i] = w
\* list.remove(w): the first occurrence goes.
ListRemove(q, w) ==
  LET i == CHOOSE j \in 1..Len(q) : q[j] = w /\ \A k \in 1..(j - 1) : q[k] # w
  IN SubSeq(q, 1, i - 1) \o SubSeq(q, i + 1, Len(q))
\* self.players[player_id] = new_player: a present key keeps its place.
PlayersSet(players, p, w) ==
  IF \E i \in 1..Len(players) : players[i].player_id = p
    THEN [i \in 1..Len(players) |->
            IF players[i].player_id = p THEN [player_id |-> p, websocket |-> w] ELSE players[i]]
    ELSE Append(players, [player_id |-> p, websocket |-> w])

\* The clean-up loop of _broadcast_to_all from the i-th failed connection on.
RECURSIVE CleanUpFailed(_, _, _)
CleanUpFailed(connections, failed_connections, i) ==
  IF i > Len(failed_connections) THEN connections
  ELSE CleanUpFailed(IF InList(connections, failed_connections[i])
                       THEN ListRemove(connections, failed_connections[i])
                       ELSE connections,
                     failed_connections, i + 1)

\* _broadcast_to_all: send to each connection, then drop those that failed.
broadcast_to_all(B) ==
  IF B.connections = <<>> THEN B
  ELSE [B EXCEPT !.connections =
          CleanUpFailed(@, SelectSeq(B.connections, LAMBDA w : w \notin B.live), 1)]

remove_player(B, p) ==
  IF ~InPlayers(B, p) THEN B
  ELSE broadcast_to_all(
         [B EXCEPT !.connections = IF InList(@, WebsocketOf(B, p))
                                     THEN ListRemove(@, WebsocketOf(B, p)) ELSE @,
                   !.players = SelectSeq(@, LAMBDA r : r.player_id # p)])

send_to_player(B, p) ==
  IF InPlayers(B, p) /\ WebsocketOf(B, p) \notin B.live THEN remove_player(B, p) ELSE B

\* The clean-up loop of _broadcast_to_others from the i-th failed player on.
RECURSIVE RemoveFailed(_, _, _)
RemoveFailed(B, failed_players, i) ==
  IF i > Len(failed_players) THEN B
  ELSE RemoveFailed(remove_player(B, failed_players[i].player_id), failed_players, i + 1)
broadcast_to_others(B, exclude_player_id) ==
  RemoveFailed(B, SelectSeq(B.players,
                            LAMBDA r : r.player_id # exclude_player_id /\ r.websocket \notin B.live),
               1)

\* add_player after its accept.  The sends to the new player in the last
\* loop change nothing: its websocket answers as it did for the welcome.
add_player(B, w, p) ==
  broadcast_to_others(
    send_to_player([B EXCEPT !.players = PlayersSet(@, p, w),
                             !.connections = Append(@, w)], p),
    p)

\* handle_chat_message and handle_player_movement of AncientBharatServer;
\* changed: the new position is in another region.
bharat_handle_chat_message(B, p) == IF InPlayers(B, p) THEN broadcast_to_all(B) ELSE B
bharat_handle_player_movement(B, p, changed) ==
  IF InPlayers(B, p) THEN broadcast_to_others(IF changed THEN send_to_player(B, p) ELSE B, p)
  ELSE B

\* ---------------------------- blackhole_event_system.py: the event
\* The event side of the same BlackholeEventSystem after __init__.
NewEvent ==
  [secret_area_discovered |-> FALSE, boss_defeated |-> FALSE,
   blackhole_active |-> FALSE, current_event |-> PyNone, ret |-> [r |-> "none"]]

\* The discovery requirements in the order check_secret_area_discovery
\* tests them; hour is datetime.now().hour.
MissingRequirements(player, hour) ==
  (IF player.level < 5 THEN <<"Must be level 5 or higher">> ELSE <<>>)
  \o (IF hour # 0 THEN <<"Must visit at the stroke of midnight">> ELSE <<>>)
  \o (IF ~player.sacred_flower
        THEN <<"Must possess a sacred flower from the village temple">> ELSE <<>>)
  \o (IF ~player.cosmic_convergence
        THEN <<"Must understand the ancient inscription">> ELSE <<>>)

\* It reads the player and the clock and writes nothing.
check_secret_area_discovery(E, player, hour) ==
  [E EXCEPT !.ret = [can_discover |-> MissingRequirements(player, hour) = <<>>,
                     missing_requirements |-> MissingRequirements(player, hour)]]

\* The dimensional boss: level_offset 5, health_multiplier 3.0 of the
\* default max_health 100.
initiate_boss_fight(E, player) ==
  IF ~E.secret_area_discovered
    THEN [E EXCEPT !.ret = [error |-> "Secret area not discovered yet"]]
  ELSE [E EXCEPT !.ret = [boss |-> [level |-> player.level + 5, health |-> 100 * 3,
                                    current_phase |-> 1]]]

trigger_blackhole_event(E, triggering_player) ==
  IF E.blackhole_active
    THEN [E EXCEPT !.ret = [error |-> "Blackhole event already active"]]
  ELSE [E EXCEPT !.current_event = [trigger_player |-> triggering_player, active |-> TRUE],
                 !.blackhole_active = TRUE,
                 !.ret = [success |-> TRUE, event |-> triggering_player]]

\* The last call of determine_region with numbers: none yet.
NoRegionCall == [x |-> 0, z |-> 0, ret |-> None]

\* A server that is sent many chat messages: its chat history, the chat
\* history file, and every chat message accepted so far in arrival order.
NewChat == [chat_history |-> <<>>, chat_file |-> <<>>, accepted |-> <<>>]

\* ------------------------------------------------ quests and progress
\* GAME_QUESTS: what handle_quest_action reads of each quest.
GAME_QUESTS ==
  [main_sarasvati_map |->
     [level_required |-> 1, region_required |-> "", experience_reward |-> 1000],
   wilderness_training |->
     [level_required |-> 2, region_required |-> "narmada_forest", experience_reward |-> 250],
   village_traditions |->
     [level_required |-> 1, region_required |-> "indrapura_city", experience_reward |-> 200],
   cultural_discovery |->
     [level_required |-> 3, region_required |-> "", experience_reward |-> 500]]
QuestIds == DOMAIN GAME_QUESTS

\* One player id, on ProgressSockets websockets one after the other or at
\* the same time.
QuestPlayer == 1
ProgressSockets == 2
NoSent == [type |-> "none"]

\* A server whose one player moves and acts on quests.  connected names the
\* socket whose Player object connected_players holds for the id (0: none);
\* sent is what the last handler sent to the player, added the experience
\* it added.  started, rewards and bonuses record, for the player id, the
\* quests for which quest_started was sent and how often each quest's reward
\* and each quest's start bonus were granted.
NewProgress ==
  [ws |-> [s \in 1..ProgressSockets |-> "new"],
   player |-> [s \in 1..ProgressSockets |-> NoPlayer],
   connected |-> 0,
   files |-> [p \in {QuestPlayer} |-> NoFile],
   sent |-> NoSent, added |-> 0, handled |-> 0,
   started |-> {},
   rewards |-> [q \in QuestIds |-> 0],
   bonuses |-> [q \in QuestIds |-> 0]]

\* The objects of the other modules, as constructed.
NewSys ==
  [blackhole |-> NewBlackhole, agent |-> NoAgent, procedural |-> NewManager,
   bharat |-> NewBharat, region |-> NoRegionCall, chat |-> NewChat,
   progress |-> NewProgress, event |-> NewEvent]

\* ------------------------------------------------------------------ state
VARIABLES
  ws,            \* each socket as its client keeps it: "new", "open", "closed"
  entries,       \* self.connected_players: player id -> Player object
  heap,          \* the Player objects, named by the socket that built them
  files,         \* game_data/player_<id>.json
  chat_history,  \* self.chat_history
  chat_file,     \* game_data/chat_history.json
  co,            \* the coroutine of each socket's websocket_endpoint
  ev,            \* ghost: what the last step did
  atd,           \* ghost: each player's fields when it was last removed
  sys            \* the objects of the other modules under src/server, by name

vars == <<ws, entries, heap, files, chat_history, chat_file, co, ev, atd, sys>>

\* Two variants the code does not have: an await between the assignments,
\* and no assignment of y.
MoveStmtsAwaitMid == <<"x", "await", "y", "z">>
MoveStmtsNoY == <<"x", "z">>
\* The statements of handle_player_movement before its region check, in
\* order: three assignments and no await between them.
MoveStmts == <<"x", "y", "z">>

\* A coroutine that has not started; reg is a ghost: whether its
\* connect_player has put a Player into connected_players.
IdleCo ==
  [pid |-> 0, qname |-> NoQueryName, ctx |-> "idle", pc |-> "idle",
   player |-> 0, m |-> NoMsg, mi |-> 0, stack |-> <<>>, reg |-> FALSE]

Init ==
  /\ ws = [s \in Sockets |-> "new"]
  /\ entries = <<>>
  /\ heap = [s \in Sockets |-> NoPlayer]
  /\ files = [p \in Players |-> NoFile]
  /\ chat_history = <<>>
  /\ chat_file = <<>>
  /\ co = [s \in Sockets |-> IdleCo]
  /\ ev = <<>>
  /\ atd = [p \in Players |-> NoFile]
  /\ sys = NewSys


\* ------------------------------------------------- running a coroutine
\* The program state a coroutine's run works on; ev starts empty.
Now ==
  [entries |-> entries, heap |-> heap, files |-> files, chat |-> chat_history,
   co |-> co, ev |-> <<>>, atd |-> atd]

Emit(S, e) == [S EXCEPT !.ev = Append(@, e)]
Suspend(S, s, pc) == [S EXCEPT !.co[s].pc = pc]

\* A send_text on the socket of Player object o succeeds while its client is
\* there and its endpoint has not ended (the server closes it then).
SendOk(S, o) == ws[o] = "open" /\ S.co[o].ctx # "done"

\* Ghost: p's session ended or was replaced; no broadcast in flight counts p
\* as having stayed.
MarkLeft(cos, p) ==
  [t \in Sockets |->
     [cos[t] EXCEPT !.stack =
        [i \in 1..Len(cos[t].stack) |->
           [cos[t].stack[i] EXCEPT !.stayed = @ \ {p}]]]]

\* Ghost: a player's persisted fields, read from the object.
Fields(pl) ==
  [exists |-> TRUE,
   f |-> <<pl.name, pl.x, pl.y, pl.z, pl.level, pl.experience,
          pl.regions_visited, pl.quests_completed>>]

\* Ghost: how a broadcast call ended.
BroadcastEnd(f, how) ==
  [e |-> "broadcast", how |-> how, msg |-> f.msg, skip |-> f.skip,
   stayed |-> f.stayed, sent |-> f.sent, failed |-> f.disc]

\* handle_websocket_message begins: the coroutine waits in receive_text.
EnterLoop(S, s) ==
  [S EXCEPT !.co[s].ctx = "loop", !.co[s].pc = "recv", !.co[s].stack = <<>>]

\* websocket_endpoint is over.
Finish(S, s) ==
  [S EXCEPT !.co[s].ctx = "done", !.co[s].pc = "done", !.co[s].stack = <<>>,
            !.co[s].m = NoMsg, !.co[s].player = 0, !.co[s].mi = 0,
            !.co[s].qname = NoQueryName, !.co[s].reg = FALSE]

RECURSIVE Raise(_, _, _), disconnect_player(_, _, _), AfterReturn(_, _),
          Broadcast(_, _, _, _), IterNext(_, _), CleanupNext(_, _)

\* An exception leaves the function that raised it.  No broadcast and no
\* disconnect_player catches it; connect_player's try prints it and
\* websocket_endpoint goes on to handle_websocket_message; the try around
\* the receive loop disconnects the player; from that except clause it
\* leaves the endpoint.
Raise(S, s, cause) ==
  LET st == S.co[s].stack
      S1 == [S EXCEPT !.ev = @ \o [i \in 1..Len(st) |->
                                     BroadcastEnd(st[Len(st) + 1 - i], "raise")],
                      !.co[s].stack = <<>>, !.co[s].m = NoMsg,
                      !.co[s].player = 0, !.co[s].mi = 0]
  IN CASE S.co[s].ctx = "connect" -> EnterLoop(S1, s)
       [] S.co[s].ctx = "loop" ->
            disconnect_player(
              Emit([S1 EXCEPT !.co[s].ctx = "except"],
                   [e |-> "caught", cause |-> cause, pid |-> S.co[s].pid,
                    before |-> Keys(S.entries), registered |-> S.co[s].reg]),
              s, S.co[s].pid)
       [] OTHER -> Finish(S1, s)

\* disconnect_player: save, delete, then tell everyone who is left.
disconnect_player(S, s, p) ==
  IF p \notin Keys(S.entries) THEN AfterReturn(S, s)
  ELSE LET player == S.heap[Lookup(S.entries, p)]
           S1 == [S EXCEPT !.files = save_player_data(@, player),
                           !.entries = DictDel(@, p),
                           !.atd[p] = Fields(player),
                           !.co = MarkLeft(@, p)]
       IN Broadcast(Emit(S1, [e |-> "removed", pid |-> p, obj |-> Lookup(S.entries, p),
                              by |-> s]),
                    s, PlayerLeft(player), 0)

\* The function the coroutine was in has returned: to the clean-up loop of
\* the broadcast below it, or out of the handler.
AfterReturn(S, s) ==
  LET n == Len(S.co[s].stack) IN
  IF n > 0 THEN CleanupNext([S EXCEPT !.co[s].stack[n].ci = @ + 1], s)
  ELSE CASE S.co[s].ctx = "connect" -> EnterLoop(S, s)
         [] S.co[s].ctx = "loop" ->
              [S EXCEPT !.co[s].pc = "recv", !.co[s].m = NoMsg,
                        !.co[s].player = 0, !.co[s].mi = 0]
         [] OTHER -> Finish(S, s)

\* broadcast_to_all (skip = 0) and broadcast_to_others (skip = sender_id):
\* the for statement takes an iterator over connected_players.items().
Broadcast(S, s, msg, skip) ==
  LET f == [msg |-> msg, skip |-> skip, pos |-> 1, used |-> Used(S.entries),
            len |-> Used(S.entries), cur |-> Dummy, disc |-> <<>>, ci |-> 0,
            stayed |-> Keys(S.entries), sent |-> <<>>]
  IN IterNext([S EXCEPT !.co[s].stack = Append(@, f)], s)

\* The iterator's next (CPython's dictiter_iternextitem) and the loop body
\* up to its await.
IterNext(S, s) ==
  LET n == Len(S.co[s].stack)
      f == S.co[s].stack[n]
      rest == {i \in Live(S.entries) : i >= f.pos}
  IN IF f.used # Used(S.entries) THEN Raise(S, s, "RuntimeError")
     ELSE IF rest = {} THEN CleanupNext([S EXCEPT !.co[s].stack[n].ci = 1], s)
     ELSE IF f.len = 0 THEN Raise(S, s, "RuntimeError")
     ELSE LET i == CHOOSE j \in rest : \A k \in rest : j <= k
              S1 == [S EXCEPT !.co[s].stack[n].pos = i + 1,
                              !.co[s].stack[n].len = @ - 1]
          IN IF S.entries[i].k = f.skip THEN IterNext(S1, s)
             ELSE Suspend([S1 EXCEPT !.co[s].stack[n].cur = S.entries[i]], s, "bsend")

\* "Clean up disconnected players": the loop over the failed ids.
CleanupNext(S, s) ==
  LET n == Len(S.co[s].stack)
      f == S.co[s].stack[n]
  IN IF f.ci > Len(f.disc)
     THEN AfterReturn(Emit([S EXCEPT !.co[s].stack = SubSeq(@, 1, n - 1)],
                           BroadcastEnd(f, "return")), s)
     ELSE disconnect_player(S, s, f.disc[f.ci])

\* A variant the code does not have: the sends to the recipients still to
\* come are started without waiting for the one in progress.
BroadcastSentAhead(S, s) ==
  LET n == Len(S.co[s].stack)
      f == S.co[s].stack[n]
      later == SelectSeq(S.entries, LAMBDA e : e.k # 0 /\ e.k # f.skip)
  IN IterNext([S EXCEPT !.co[s].stack[n].sent =
                          @ \o [j \in 1..Len(later) |->
                                  [pid |-> later[j].k, obj |-> later[j].v,
                                   ok |-> SendOk(S, later[j].v)]]], s)

\* The awaited send_text of a broadcast is over.
BroadcastSent(S, s) ==
  LET n == Len(S.co[s].stack)
      f == S.co[s].stack[n]
      ok == SendOk(S, f.cur.v)
  IN IterNext([S EXCEPT !.co[s].stack[n].sent =
                          Append(@, [pid |-> f.cur.k, obj |-> f.cur.v, ok |-> ok]),
                        !.co[s].stack[n].disc =
                          IF ok THEN @ ELSE Append(@, f.cur.k)], s)


\* ------------------------------------------------------------- handlers
\* connect_player after websocket.accept(): load, build the Player, set its
\* region, register it, and wait in the send of the welcome message.
Accepted(S, s, accepted) ==
  LET p == S.co[s].pid
      player_name == IF S.co[s].qname = NoQueryName THEN DefaultName(p) ELSE S.co[s].qname
      player == NewPlayer(p, load_player_data(S.files, p), player_name)
      region == determine_region(player.x, player.z)
      S1 == Emit([S EXCEPT !.co[s].qname = NoQueryName],
                 [e |-> "connect", pid |-> p, qname |-> S.co[s].qname,
                  before |-> Keys(S.entries)])
  IN IF ~accepted THEN Raise(S, s, "accept")
     ELSE IF region = TypeError THEN Raise(S1, s, "TypeError")
     ELSE Suspend(
            [S1 EXCEPT !.heap[s] = [player EXCEPT !.current_region = region],
                       !.entries = DictSet(@, p, s),
                       !.co = [(IF p \in Keys(S.entries) THEN MarkLeft(@, p) ELSE @)
                                 EXCEPT ![s].reg = TRUE]],
            s, "welcome")

\* connect_player after the welcome message: "Notify other players".
Welcomed(S, s) ==
  IF SendOk(S, s) THEN Broadcast(S, s, PlayerJoined(S.heap[s]), S.co[s].pid)
  ELSE Raise(S, s, "send")

\* handle_player_movement from "Check for region change" to its next await.
CheckRegion(S, s) ==
  LET o == S.co[s].player
      player == S.heap[o]
      new_region == determine_region(player.x, player.z)
      S1 == Emit(S, [e |-> "moved", pid |-> S.co[s].pid, obj |-> o, m |-> S.co[s].m])
  IN IF new_region = TypeError THEN Raise(S, s, "TypeError")
     ELSE IF new_region # player.current_region
     THEN Suspend(
            [S1 EXCEPT !.heap[o].current_region = new_region,
                       !.heap[o].regions_visited =
                         IF \E i \in 1..Len(@) : @[i] = new_region THEN @
                         ELSE Append(@, new_region),
                       !.heap[o].experience =
                         IF \E i \in 1..Len(player.regions_visited) :
                              player.regions_visited[i] = new_region
                         THEN @ ELSE @ + 100],
            s, "region_send")
     ELSE Broadcast(S1, s, PlayerMoved(S.co[s].pid, player), S.co[s].pid)

\* handle_player_movement's "Update position" statements from the mi-th on.
RECURSIVE MoveRun(_, _)
MoveRun(S, s) ==
  LET i == S.co[s].mi
      o == S.co[s].player
      m == S.co[s].m
      S1 == [S EXCEPT !.co[s].mi = i + 1]
  IN IF i > Len(MoveStmts) THEN CheckRegion(S, s)
     ELSE CASE MoveStmts[i] = "x" ->
                 MoveRun([S1 EXCEPT !.heap[o].x = IF m.x = Absent THEN @ ELSE m.x,
                                    !.heap[o].wr.x = s], s)
            [] MoveStmts[i] = "y" ->
                 MoveRun([S1 EXCEPT !.heap[o].y = IF m.y = Absent THEN @ ELSE m.y,
                                    !.heap[o].wr.y = s], s)
            [] MoveStmts[i] = "z" ->
                 MoveRun([S1 EXCEPT !.heap[o].z = IF m.z = Absent THEN @ ELSE m.z,
                                    !.heap[o].wr.z = s], s)
            [] OTHER -> Suspend(S1, s, "mv_await")

\* A variant the code does not have: the position update alone, with no
\* region check and no notification.
MoveOnly(S, s, m) ==
  IF S.co[s].pid \notin Keys(S.entries) THEN AfterReturn(S, s)
  ELSE LET o == Lookup(S.entries, S.co[s].pid)
       IN AfterReturn([S EXCEPT !.heap[o].x = IF m.x = Absent THEN @ ELSE m.x,
                                !.heap[o].y = IF m.y = Absent THEN @ ELSE m.y,
                                !.heap[o].z = IF m.z = Absent THEN @ ELSE m.z], s)

handle_player_movement(S, s, m) ==
  IF S.co[s].pid \notin Keys(S.entries) THEN AfterReturn(S, s)
  ELSE MoveRun([S EXCEPT !.co[s].player = Lookup(S.entries, S.co[s].pid),
                         !.co[s].m = m, !.co[s].mi = 1], s)

\* A send_text to the moving player's own socket is over: the region_changed
\* notification, after which the movement is broadcast.
MovementSent(S, s) ==
  LET o == S.co[s].player IN
  IF ~SendOk(S, o) THEN Raise(S, s, "send")
  ELSE IF S.co[s].pc = "mv_await" THEN MoveRun(S, s)
  ELSE Broadcast(S, s, PlayerMoved(S.co[s].pid, S.heap[o]), S.co[s].pid)

handle_chat_message(S, s, m) ==
  LET p == S.co[s].pid
      message == Strip(m.text)
  IN IF p \notin Keys(S.entries) \/ message = "" THEN AfterReturn(S, s)
     ELSE LET chat_message == ChatMessage(p, S.heap[Lookup(S.entries, p)], message)
          IN Broadcast(
               Emit([S EXCEPT !.chat = AddToHistory(S.chat, chat_message)],
                    [e |-> "chat", pid |-> p]),
               s, chat_message, 0)

\* handle_websocket_message: one received text frame, parsed and dispatched.
Dispatch(S, s, m) ==
  CASE m.type = "malformed" -> Raise(S, s, "JSONDecodeError")
    [] m.type = "movement" -> handle_player_movement(S, s, m)
    [] m.type = "chat" -> handle_chat_message(S, s, m)
    [] OTHER -> AfterReturn(S, s)

\* save_game_data's loop over the connected players.
SaveConnected(fs, es, hp) ==
  [p \in Players |->
     IF p \in Keys(es) THEN save_player_data(fs, hp[Lookup(es, p)])[p] ELSE fs[p]]

\* ---------------------------------------------------------------- actions
\* A Player object is reachable from the dictionary, from a handler's local
\* variable or from connect_player's; the fields of one that is not are
\* nothing the program can read.
Referenced(S, o) ==
  \/ \E i \in Live(S.entries) : S.entries[i].v = o
  \/ \E t \in Sockets : S.co[t].player = o
  \/ S.co[o].pc = "welcome"

\* With no broadcast in flight no iterator holds a position in the
\* dictionary, and its dummies are nothing the program can see.
Compact(S) ==
  IF \E t \in Sockets : S.co[t].stack # <<>> THEN S.entries
  ELSE SelectSeq(S.entries, LAMBDA e : e.k # 0)

Install(S) ==
  /\ entries' = Compact(S)
  /\ heap' = [o \in Sockets |-> IF Referenced(S, o) THEN S.heap[o] ELSE NoPlayer]
  /\ files' = S.files
  /\ chat_history' = S.chat
  /\ co' = S.co
  /\ ev' = S.ev
  /\ atd' = S.atd
  /\ ws' = [t \in Sockets |-> IF S.co[t].ctx = "done" THEN "closed" ELSE ws[t]]
  /\ UNCHANGED <<chat_file, sys>>

InFlight == Cardinality({t \in Sockets : co[t].pc \notin {"idle", "recv", "done"}})

\* A client opens /ws/{player_id}?name=...: websocket_endpoint runs
\* connect_player up to its first send, or, when the client has gone before
\* the accept, into handle_websocket_message.  Until accept returns the
\* coroutine has touched nothing shared, so the opening and the accept are
\* one step.  Sockets and player ids are names without meaning, so they are
\* taken in order.
Connect(s, p, qname, accepted) ==
  /\ ws[s] = "new"
  /\ InFlight < MaxInFlight
  /\ \A t \in Sockets : t < s => ws[t] # "new"
  /\ \A q \in Players : q < p => \E t \in Sockets : t < s /\ co[t].pid = q
  /\ LET S == Accepted([Now EXCEPT !.co[s] = [IdleCo EXCEPT !.pid = p, !.qname = qname,
                                                          !.ctx = "connect"]],
                       s, accepted)
     IN /\ entries' = Compact(S)
        /\ heap' = [o \in Sockets |-> IF Referenced(S, o) THEN S.heap[o] ELSE NoPlayer]
        /\ co' = S.co
        /\ ev' = S.ev
        /\ ws' = [ws EXCEPT ![s] = IF accepted THEN "open" ELSE "closed"]
  /\ UNCHANGED <<files, chat_history, chat_file, atd, sys>>

\* A client goes away.
Close(s) ==
  /\ ws[s] = "open"
  /\ ws' = [ws EXCEPT ![s] = "closed"]
  /\ ev' = <<>>
  /\ UNCHANGED <<entries, heap, files, chat_history, chat_file, co, atd, sys>>

SendWelcome(s) == co[s].pc = "welcome" /\ Install(Welcomed(Now, s))

ReceiveText(s, m) ==
  /\ co[s].pc = "recv"
  /\ InFlight < MaxInFlight
  /\ ws[s] = "open"
  /\ (m.type = "chat" /\ Strip(m.text) # "") => Len(chat_history) < MaxChats
  /\ Install(Dispatch(Now, s, m))

ReceiveDisconnect(s) ==
  /\ co[s].pc = "recv"
  /\ InFlight < MaxInFlight
  /\ ws[s] = "closed"
  /\ Install(Raise(Now, s, "WebSocketDisconnect"))

SendToMover(s) == co[s].pc \in {"region_send", "mv_await"} /\ Install(MovementSent(Now, s))

BroadcastSend(s) == co[s].pc = "bsend" /\ Install(BroadcastSent(Now, s))

\* auto_save_task and POST /admin/save.
SaveGameData ==
  /\ chat_file' = LastN(chat_history, ChatLimit)
  /\ files' = SaveConnected(files, entries, heap)
  /\ ev' = <<>>
  /\ UNCHANGED <<ws, entries, heap, chat_history, co, atd, sys>>

\* The shutdown event's save_game_data, then a new process: its __init__
\* loads the chat history; every socket of the old process is gone.
Shutdown ==
  /\ \E s \in Sockets : ws[s] # "new"
  /\ chat_file' = LastN(chat_history, ChatLimit)
  /\ files' = SaveConnected(files, entries, heap)
  /\ chat_history' = chat_file'
  /\ entries' = <<>>
  /\ heap' = [s \in Sockets |-> NoPlayer]
  /\ ws' = [s \in Sockets |-> IF ws[s] = "new" THEN "new" ELSE "closed"]
  /\ co' = [s \in Sockets |-> IF ws[s] = "new" THEN IdleCo
                              ELSE [IdleCo EXCEPT !.pid = co[s].pid,
                                                  !.ctx = "done", !.pc = "done"]]
  /\ atd' = [p \in Players |->
               IF p \in Keys(entries) THEN Fields(heap[Lookup(entries, p)]) ELSE atd[p]]
  /\ ev' = <<[e |-> "shutdown"]>>
  /\ UNCHANGED sys

\* Three sessions side by side; their movements leave the region as it is,
\* so handle_player_movement has no region_changed to send.
Next ==
  \/ \E s \in Sockets, a \in BOOLEAN : Connect(s, s, NoQueryName, a)
  \/ \E s \in Sockets : Close(s)
  \/ \E s \in Sockets : SendWelcome(s)
  \/ \E s \in Sockets, m \in MainMsgs : ReceiveText(s, m)
  \/ \E s \in Sockets : ReceiveDisconnect(s)
  \/ \E s \in Sockets : BroadcastSend(s)

Spec == Init /\ [][Next]_vars

\* One player id on DataSockets sockets, with every kind of movement, the
\* saves and the restart.  The dictionary never holds a second player, so no
\* broadcast has a recipient to wait for.
NextData ==
  \/ \E s \in 1..DataSockets, n \in QueryNames \cup {NoQueryName}, a \in BOOLEAN :
       Connect(s, 1, n, a)
  \/ \E s \in Sockets : Close(s)
  \/ \E s \in Sockets : SendWelcome(s)
  \/ \E s \in Sockets, m \in DataMsgs : ReceiveText(s, m)
  \/ \E s \in Sockets : ReceiveDisconnect(s)
  \/ \E s \in Sockets : SendToMover(s)
  \/ SaveGameData
  \/ Shutdown

SpecData == Init /\ [][NextData]_vars

\* ------------------------------------------------------------- properties
HasElem(q, v) == \E i \in 1..Len(q) : q[i] = v
Connected(p) == p \in Keys(entries)
PlayerOf(p) == heap[Lookup(entries, p)]

\* C1: when handle_player_movement has taken a well-formed movement message
\* of a connected player, the stored position is the message's x, y and z.
C1_PositionStored ==
  \A i \in 1..Len(ev) :
    (ev[i].e = "moved" /\ WellFormed(ev[i].m)) =>
      /\ heap[ev[i].obj].x = ev[i].m.x
      /\ heap[ev[i].obj].y = ev[i].m.y
      /\ heap[ev[i].obj].z = ev[i].m.z

\* A movement to (300, 5, 0) is stored for a player who was in the dust
\* plains before it.
C1_MovedAgain ==
  \E i \in 1..Len(ev) :
    /\ ev[i].e = "moved"
    /\ ev[i].m = Movement(Num(300), Num(5), Num(0))
    /\ HasElem(heap[ev[i].obj].regions_visited, "dust_plains")
    /\ heap[ev[i].obj].y = Num(5)

\* The sends a finished broadcast call made to player id p.
Attempts(b, p) == Cardinality({j \in 1..Len(b.sent) : b.sent[j].pid = p})
\* Everyone who was connected from the call's start to its end, the skipped
\* sender aside, was sent the message.
SentToAllWhoStayed(b) == \A q \in b.stayed \ {b.skip} : Attempts(b, q) >= 1

\* C2: when a broadcast of player_moved is over, every other player who was
\* connected throughout has been sent it, and the mover has not.
C2_MovedSentToOthers ==
  \A i \in 1..Len(ev) :
    (ev[i].e = "broadcast" /\ ev[i].msg.type = "player_moved") =>
      /\ SentToAllWhoStayed(ev[i])
      /\ Attempts(ev[i], ev[i].msg.player_id) = 0

\* C3: when a broadcast of chat_message is over, every player who was
\* connected throughout, the sender included, has been sent it exactly once.
C3_ChatSentOnceToAll ==
  \A i \in 1..Len(ev) :
    (ev[i].e = "broadcast" /\ ev[i].msg.type = "chat_message") =>
      \A q \in ev[i].stayed : Attempts(ev[i], q) = 1

\* C4: when a broadcast in which a send failed is over, the session that
\* send went to is no longer among the connected players, and every other
\* recipient who stayed has been sent the message.
C4_FailedRemovedOthersSent ==
  \A i \in 1..Len(ev) :
    (ev[i].e = "broadcast" /\ \E j \in 1..Len(ev[i].sent) : ~ev[i].sent[j].ok) =>
      /\ \A j \in 1..Len(ev[i].sent) :
           ~ev[i].sent[j].ok =>
             ~(Connected(ev[i].sent[j].pid)
               /\ Lookup(entries, ev[i].sent[j].pid) = ev[i].sent[j].obj)
      /\ SentToAllWhoStayed(ev[i])

\* C5, its second half: when the broadcast of a removed player's player_left
\* is over, every player who was connected throughout has been sent it.
C5_LeftSentToAll ==
  \A i \in 1..Len(ev) :
    (ev[i].e = "broadcast" /\ ev[i].msg.type = "player_left") =>
      SentToAllWhoStayed(ev[i])

\* C6: when the handling of a player's inbound message has raised (the
\* JSON parse, a handler or a broadcast under it), the except clause of the
\* receive loop leaves connected exactly the players who were, less that one.
C6_OnlyTheSenderRemoved ==
  \A i \in 1..Len(ev) :
    (ev[i].e = "caught" /\ ev[i].cause # "WebSocketDisconnect") =>
      Keys(entries) = ev[i].before \ {ev[i].pid}

\* A malformed frame of one of three connected players has been caught.
C6_MalformedAmongThree ==
  \E i \in 1..Len(ev) :
    /\ ev[i].e = "caught"
    /\ ev[i].cause = "JSONDecodeError"
    /\ ev[i].pid \in ev[i].before
    /\ Cardinality(ev[i].before) = 3
    /\ Cardinality(Keys(entries)) = 2

\* C7: a player id that connects while it is not connected, after it was
\* removed (by a disconnect or by the shutdown), is a connected player with
\* the name, position, level, experience, visited regions and completed
\* quests it had when it was removed.
C7_RestoredOnConnect ==
  \A i \in 1..Len(ev) :
    (ev[i].e = "connect" /\ ev[i].pid \notin ev[i].before /\ atd[ev[i].pid].exists) =>
      /\ Connected(ev[i].pid)
      /\ Fields(PlayerOf(ev[i].pid)) = atd[ev[i].pid]

\* C8: a player who connects with ?name=... is stored under that name.
C8_QueryNameStored ==
  \A i \in 1..Len(ev) :
    (ev[i].e = "connect" /\ ev[i].qname # NoQueryName) =>
      /\ Connected(ev[i].pid)
      /\ PlayerOf(ev[i].pid).name = ev[i].qname

\* C9: every connected player's current_region is one of the five regions
\* and is determine_region of its stored x and z, in every state (the states
\* in which a handler waits in a send included).
C9_RegionOfPosition ==
  \A p \in Keys(entries) :
    /\ PlayerOf(p).current_region \in Regions
    /\ PlayerOf(p).current_region = determine_region(PlayerOf(p).x, PlayerOf(p).z)

\* A connected player has moved into the dust plains.
C9_InDustPlains ==
  \E p \in Keys(entries) :
    /\ PlayerOf(p).x = Num(-300)
    /\ PlayerOf(p).current_region = "dust_plains"

\* Two movement handlers of one player id, with different messages, are in
\* flight and hold the same Player object.
TwoMovementsInFlight ==
  \E s, t \in Sockets :
    /\ s # t
    /\ co[s].pid = co[t].pid
    /\ co[s].player # 0 /\ co[s].player = co[t].player
    /\ co[s].m.type = "movement" /\ co[t].m.type = "movement"
    /\ co[s].m # co[t].m
\* The stored x, y and z of a Player object were written by different handlers.
Torn(pl) == ~(pl.wr.x = pl.wr.y /\ pl.wr.y = pl.wr.z)
MidUpdate(o) == \E s \in Sockets : co[s].pc = "mv_await" /\ co[s].player = o

\* C10, as the code has it: no connected player's stored position combines
\* the coordinates of two movement messages, and its stored region is the
\* region of its stored position, however movement handlers for one id run
\* side by side.
C10_NoDestructiveInterleaving ==
  \A p \in Keys(entries) :
    ~MidUpdate(Lookup(entries, p)) =>
      /\ ~Torn(PlayerOf(p))
      /\ PlayerOf(p).current_region = determine_region(PlayerOf(p).x, PlayerOf(p).z)

C10_ConcurrentMovements == TwoMovementsInFlight /\ \A p \in Keys(entries) : ~Torn(PlayerOf(p))

\* C10 as stated, over the states it speaks of: where two movement handlers
\* of one player id run side by side, the stored position combines their
\* coordinates or the stored region is not the region of the position.
C10_ConcurrentMovementsTear ==
  TwoMovementsInFlight =>
    \E p \in Keys(entries) :
      \/ Torn(PlayerOf(p))
      \/ PlayerOf(p).current_region # determine_region(PlayerOf(p).x, PlayerOf(p).z)

\* The broadcast call a coroutine waits in, and the entries its loop has
\* still to come to.
Waiting(s) == co[s].pc = "bsend"
Frame(s) == co[s].stack[Len(co[s].stack)]
Later(s) == {i \in Live(entries) : i >= Frame(s).pos /\ entries[i].k # Frame(s).skip}
SentTo(f, o) == \E j \in 1..Len(f.sent) : f.sent[j].obj = o

\* C11: while a broadcast waits in the send to one recipient, neither that
\* recipient nor any recipient later in the iteration order has been sent
\* the message by this broadcast.
C11_NoSendPastTheStalledOne ==
  \A s \in Sockets :
    Waiting(s) =>
      /\ ~SentTo(Frame(s), Frame(s).cur.v)
      /\ \A i \in Later(s) : ~SentTo(Frame(s), entries[i].v)

\* A broadcast waits in a send while a recipient with an open socket is
\* later in the iteration order.
C11_OpenRecipientBehind ==
  \E s \in Sockets :
    /\ Waiting(s)
    /\ \E i \in Later(s) : ws[entries[i].v] = "open" /\ entries[i].v # s


\* C16: a broadcast that was waiting in a send while another coroutine
\* connected or disconnected a player ends by returning, not by raising,
\* and has then sent the message to every player who stayed connected.
C16_BroadcastSurvivesChange ==
  \A i \in 1..Len(ev) :
    ev[i].e = "broadcast" => (ev[i].how = "return" /\ SentToAllWhoStayed(ev[i]))

\* C17: when a socket's disconnect removes a session, it is the session that
\* socket registered: a session registered by a second socket of the same
\* player id, still open, is not removed by the closing of the first.
C17_SecondSessionKept ==
  \A i \in 2..Len(ev) :
    (/\ ev[i].e = "removed"
     /\ ev[i - 1].e = "caught" /\ ev[i - 1].cause = "WebSocketDisconnect"
     /\ ev[i - 1].registered)
    => (ev[i].obj = ev[i].by \/ ws[ev[i].obj] # "open")

\* ------------------------------------------- exclusive classes: the steps
MaxCalls == 4

session == <<ws, entries, heap, files, chat_history, chat_file, co, ev, atd>>

Successful(r) == "success" \in DOMAIN r
Logged(B, call, before) ==
  [B EXCEPT !.log = Append(@, [call |-> call, ret |-> B.ret, before |-> before,
                                after |-> B.holder])]

GrantExclusiveClass(player_id, class_id) ==
  /\ Len(sys.blackhole.log) < MaxCalls
  /\ sys' = [sys EXCEPT !.blackhole =
               Logged(grant_exclusive_class(@, player_id, class_id),
                      [f |-> "grant", player_id |-> player_id, class_id |-> class_id],
                      @.holder)]
  /\ UNCHANGED session

CheckEligibility(class_id) ==
  /\ Len(sys.blackhole.log) < MaxCalls
  /\ sys' = [sys EXCEPT !.blackhole =
               Logged(check_exclusive_class_eligibility(@, class_id),
                      [f |-> "check", class_id |-> class_id], @.holder)]
  /\ UNCHANGED session

NextClass ==
  \/ \E p \in PlayerIds, c \in ClassIdArgs : GrantExclusiveClass(p, c)
  \/ \E c \in ClassIdArgs : CheckEligibility(c)

SpecClass == Init /\ [][NextClass]_vars

\* C12: once grant_exclusive_class has succeeded for a class, every later
\* grant of that class, by any player, returns 'Class already taken' and
\* leaves the holder as it was.
C12_GrantedOnce ==
  \A i, j \in 1..Len(sys.blackhole.log) :
    LET a == sys.blackhole.log[i]
        b == sys.blackhole.log[j]
    IN (/\ i < j
        /\ a.call.f = "grant" /\ Successful(a.ret)
        /\ b.call.f = "grant" /\ b.call.class_id = a.call.class_id)
       => /\ b.ret = [error |-> "Class already taken"]
          /\ b.after = b.before

\* The same for grants to players whose id is not the empty string.
C12_GrantedOnceToNamed ==
  \A i, j \in 1..Len(sys.blackhole.log) :
    LET a == sys.blackhole.log[i]
        b == sys.blackhole.log[j]
    IN (/\ i < j
        /\ a.call.f = "grant" /\ Successful(a.ret) /\ a.call.player_id # ""
        /\ b.call.f = "grant" /\ b.call.class_id = a.call.class_id)
       => /\ b.ret = [error |-> "Class already taken"]
          /\ b.after = b.before

\* ------------------------------------------------ the model agent: the steps
\* AI3DModelAgent(): with LOCAL_MODE=1 the directories are made.
AI3DModelAgent(local, installed) ==
  /\ ~sys.agent.up
  /\ sys' = [sys EXCEPT !.agent = [NoAgent EXCEPT !.up = TRUE, !.directories = local,
                                                  !.available = AlwaysAvailable \cup installed]]
  /\ UNCHANGED session

Running(c) == sys.agent.call[c].pc \in {"download", "generate"}

\* The process ends and a new one starts on the same disk: the calls in
\* flight are gone, and __init__ loads the metadata file.
RestartAgent ==
  /\ sys.agent.up
  /\ \E c \in Calls : Running(c)
  /\ sys' = [sys EXCEPT !.agent =
               [load_metadata(@) EXCEPT !.call =
                  [c \in Calls |-> IF Running(c) THEN [@[c] EXCEPT !.pc = "gone"] ELSE @[c]]]]
  /\ UNCHANGED session

\* A caller awaits get_or_create_model(request).
GetOrCreateModel(c, request, found) ==
  /\ sys.agent.up
  /\ sys.agent.call[c].pc = "idle"
  /\ \A d \in Calls : d < c => sys.agent.call[d].pc # "idle"
  /\ sys' = [sys EXCEPT !.agent = get_or_create_model(@, c, request, found)]
  /\ UNCHANGED session

\* The sleep of _download_model or of a generator is over.
AgentWakes(c) ==
  /\ Running(c)
  /\ sys' = [sys EXCEPT !.agent = IF @.call[c].pc = "download" THEN Downloaded(@, c)
                                  ELSE Generated(@, c)]
  /\ UNCHANGED session

\* cleanup_old_models finds one model too old: _remove_model, save_metadata.
CleanupOldModels(k) ==
  /\ sys.agent.up
  /\ k \in 1..Len(sys.agent.model_cache)
  /\ sys' = [sys EXCEPT !.agent =
               save_metadata([@ EXCEPT !.files = @ \ {sys.agent.model_cache[k].file_path},
                                       !.model_cache =
                                         CacheDel(@, sys.agent.model_cache[k].model_id)])]
  /\ UNCHANGED session

\* Somebody deletes a cached model's file.
DeleteFile(k) ==
  /\ k \in 1..Len(sys.agent.model_cache)
  /\ sys.agent.model_cache[k].file_path \in sys.agent.files
  /\ sys' = [sys EXCEPT !.agent.files = @ \ {sys.agent.model_cache[k].file_path}]
  /\ UNCHANGED session

NextAgent ==
  \/ \E local \in BOOLEAN, installed \in {{}, Installable} : AI3DModelAgent(local, installed)
  \/ RestartAgent
  \/ \E c \in Calls, r \in Requests, found \in BOOLEAN : GetOrCreateModel(c, r, found)
  \/ \E c \in Calls : AgentWakes(c)
  \/ \E k \in 1..NumCalls : CleanupOldModels(k)
  \/ \E k \in 1..NumCalls : DeleteFile(k)

SpecAgent == Init /\ [][NextAgent]_vars

\* C13: a call of get_or_create_model that finds the model cached with its
\* file on disk returns the cached record at once, and has not downloaded,
\* generated or made a placeholder.
C13_CachedReturned ==
  \A c \in Calls :
    sys.agent.call[c].hit =>
      /\ sys.agent.call[c].pc = "done"
      /\ sys.agent.call[c].ret = sys.agent.call[c].was
      /\ sys.agent.call[c].made = {}

\* A second call for a request whose first call made the model.
C13_CalledAgain ==
  \E c, d \in Calls :
    /\ c < d
    /\ sys.agent.call[d].hit
    /\ sys.agent.call[c].request = sys.agent.call[d].request
    /\ sys.agent.call[c].made # {}
    /\ sys.agent.call[c].ret = sys.agent.call[d].ret

\* C14: a finished call of get_or_create_model has returned a metadata
\* record, its file is on disk when it returns, and the record is then the
\* cached one; it is a placeholder when the call went through download and
\* generation to the placeholder.
C14_AlwaysARecord ==
  \A c \in Calls :
    sys.agent.call[c].pc = "done" =>
      /\ IsMetadata(sys.agent.call[c].ret)
      /\ "placeholder" \in sys.agent.call[c].made =>
           /\ sys.agent.call[c].ret.source = ModelSource("placeholder")
           /\ sys.agent.call[c].at_return.written
           /\ sys.agent.call[c].at_return.cached

\* The same for an agent whose model directories exist.
C14_AlwaysARecordLocally ==
  sys.agent.directories =>
    \A c \in Calls :
      sys.agent.call[c].pc = "done" =>
        /\ IsMetadata(sys.agent.call[c].ret)
        /\ "placeholder" \in sys.agent.call[c].made =>
             /\ sys.agent.call[c].ret.source = ModelSource("placeholder")
             /\ sys.agent.call[c].at_return.written
             /\ sys.agent.call[c].at_return.cached

\* ------------------------------------------- procedural content: the steps
Called(f, M) == sys' = [sys EXCEPT !.procedural = [M EXCEPT !.ret = [f |-> f, value |-> M.ret]]]

Initialize(draws) ==
  /\ sys' = [sys EXCEPT !.procedural = initialize(@, draws)]
  /\ UNCHANGED session

GetRandomJobClass(d) ==
  Called("get_random_job_class", get_random_job_class(sys.procedural, d)) /\ UNCHANGED session
GetRandomWeapon(d) ==
  Called("get_random_weapon", get_random_weapon(sys.procedural, d)) /\ UNCHANGED session
GetRandomBeast(d) ==
  Called("get_random_beast", get_random_beast(sys.procedural, d)) /\ UNCHANGED session
GetRandomDivineEntity(d) ==
  Called("get_random_divine_entity", get_random_divine_entity(sys.procedural, d))
  /\ UNCHANGED session
GenerateQuestContent(w, b, e, j) ==
  Called("generate_quest_content", generate_quest_content(sys.procedural, w, b, e, j))
  /\ UNCHANGED session

NextProcedural ==
  \/ \E draws \in BulkDraws : Initialize(draws)
  \/ \E d \in JobClassDraws : GetRandomJobClass(d)
  \/ \E d \in WeaponDraws : GetRandomWeapon(d)
  \/ \E d \in BeastDraws : GetRandomBeast(d)
  \/ \E d \in DivineDraws : GetRandomDivineEntity(d)
  \/ \E w \in WeaponDraws, b \in BeastDraws, e \in DivineDraws, j \in JobClassDraws :
       GenerateQuestContent(w, b, e, j)

SpecProcedural == Init /\ [][NextProcedural]_vars

Getters ==
  {"get_random_job_class", "get_random_weapon", "get_random_beast", "get_random_divine_entity"}

\* C15: once initialize() has returned True, each of the four getters returns
\* a record, never None, and generate_quest_content returns a bundle whose
\* reward_weapon, quest_beast, patron_divine and unlock_class are all records.
C15_RecordsAfterInitialize ==
  sys.procedural.is_initialized =>
    /\ sys.procedural.ret.f \in Getters => sys.procedural.ret.value # PyNone
    /\ sys.procedural.ret.f = "generate_quest_content" =>
         /\ DOMAIN sys.procedural.ret.value =
              {"reward_weapon", "quest_beast", "patron_divine", "unlock_class"}
         /\ \A k \in DOMAIN sys.procedural.ret.value : sys.procedural.ret.value[k] # PyNone

\* A quest bundle made after initialize().
C15_QuestContentMade ==
  /\ sys.procedural.is_initialized
  /\ sys.procedural.ret.f = "generate_quest_content"
  /\ sys.procedural.ret.value.unlock_class \in JobClassDraws

\* ----------------------------------------------- ancient bharat: the steps
\* Each handler runs to its end before the next one starts.
\* A client connects and sends its connect message: add_player, or, when its
\* accept raises, the endpoint's finally.
Join(w, p, accepted) ==
  /\ sys.bharat.endpoint[w].at = "new"
  /\ \A v \in WebSockets : v < w => sys.bharat.endpoint[v].at # "new"
  /\ sys' = [sys EXCEPT !.bharat =
               IF accepted
                 THEN [add_player([@ EXCEPT !.live = @ \cup {w}], w, p)
                         EXCEPT !.endpoint[w] = [at |-> "joined", player_id |-> p]]
                 ELSE [remove_player(@, p)
                         EXCEPT !.endpoint[w] = [at |-> "ended", player_id |-> p]]]
  /\ UNCHANGED session

\* A client goes away: sends to its websocket fail from now on.
Drop(w) ==
  /\ w \in sys.bharat.live
  /\ sys' = [sys EXCEPT !.bharat.live = @ \ {w}]
  /\ UNCHANGED session

\* The endpoint of a websocket that has gone leaves its loop: finally.
Leave(w) ==
  /\ sys.bharat.endpoint[w].at = "joined"
  /\ w \notin sys.bharat.live
  /\ sys' = [sys EXCEPT !.bharat =
               [remove_player(@, @.endpoint[w].player_id)
                  EXCEPT !.endpoint[w].at = "ended"]]
  /\ UNCHANGED session

BharatChat(w) ==
  /\ sys.bharat.endpoint[w].at = "joined"
  /\ w \in sys.bharat.live
  /\ sys' = [sys EXCEPT !.bharat = bharat_handle_chat_message(@, @.endpoint[w].player_id)]
  /\ UNCHANGED session

BharatMove(w, changed) ==
  /\ sys.bharat.endpoint[w].at = "joined"
  /\ w \in sys.bharat.live
  /\ sys' = [sys EXCEPT !.bharat =
               bharat_handle_player_movement(@, @.endpoint[w].player_id, changed)]
  /\ UNCHANGED session

NextBharat ==
  \/ \E w \in WebSockets, p \in BharatIds, a \in BOOLEAN : Join(w, p, a)
  \/ \E w \in WebSockets : Drop(w)
  \/ \E w \in WebSockets : Leave(w)
  \/ \E w \in WebSockets : BharatChat(w)
  \/ \E w \in WebSockets, changed \in BOOLEAN : BharatMove(w, changed)

SpecBharat == Init /\ [][NextBharat]_vars

\* C18: the connections list holds exactly the websockets of the players in
\* the players dictionary, each once.
C18_ConnectionsArePlayersSockets ==
  /\ {sys.bharat.connections[i] : i \in 1..Len(sys.bharat.connections)}
       = {sys.bharat.players[i].websocket : i \in 1..Len(sys.bharat.players)}
  /\ Len(sys.bharat.connections) = Len(sys.bharat.players)

\* ------------------------------------------------ regions: the steps
\* Positions are taken on a grid of 100 units, GridHalf steps to each side
\* of the origin: it holds every corner of every rectangle but the city's
\* southern edge, and the inside of each.
GridHalf == 5
Coordinates == {100 * k : k \in (0 - GridHalf)..GridHalf}

\* The regions whose boundaries contain the position, both ends included as
\* determine_region compares them.
Containing(x, z) ==
  {REGION_INFO[i].region : i \in
     {j \in 1..Len(REGION_INFO) :
        /\ REGION_INFO[j].x_min <= x /\ x <= REGION_INFO[j].x_max
        /\ REGION_INFO[j].z_min <= z /\ z <= REGION_INFO[j].z_max}}

\* The world is what the five rectangles span together.
InWorld(x, z) ==
  /\ \E i \in 1..Len(REGION_INFO) : REGION_INFO[i].x_min <= x
  /\ \E i \in 1..Len(REGION_INFO) : x <= REGION_INFO[i].x_max
  /\ \E i \in 1..Len(REGION_INFO) : REGION_INFO[i].z_min <= z
  /\ \E i \in 1..Len(REGION_INFO) : z <= REGION_INFO[i].z_max

DetermineRegion(x, z) ==
  /\ sys' = [sys EXCEPT !.region =
               [x |-> x, z |-> z, ret |-> determine_region(Num(x), Num(z))]]
  /\ UNCHANGED session

NextRegion == \E x \in Coordinates, z \in Coordinates : DetermineRegion(x, z)

SpecRegion == Init /\ [][NextRegion]_vars

\* C19: for every position inside the world bounds the region returned by
\* determine_region is the only region whose boundaries contain it (so the
\* rectangles share no position, and the order of the tests cannot matter).
C19_OnlyRegionContaining ==
  (sys.region.ret # None /\ InWorld(sys.region.x, sys.region.z))
  => Containing(sys.region.x, sys.region.z) = {sys.region.ret}

\* What does hold: the returned region is one of those containing the
\* position, and the first of them in REGION_INFO's order.
C19_FirstRegionContaining ==
  (sys.region.ret # None /\ InWorld(sys.region.x, sys.region.z))
  => /\ sys.region.ret \in Containing(sys.region.x, sys.region.z)
     /\ \A i \in 1..Len(REGION_INFO) :
          REGION_INFO[i].region = sys.region.ret
          => \A j \in 1..(i - 1) :
               REGION_INFO[j].region \notin Containing(sys.region.x, sys.region.z)

\* ------------------------------------------- the chat history: the steps
\* More chat messages than the history keeps.
MaxAccepted == 53
ChatTexts == {" ", "hi"}

\* handle_chat_message up to its await: nothing for a player who is not
\* connected or a message that strips to nothing; the timestamp is the
\* place of the message among those accepted.
HandleChatMessage(connected, text) ==
  /\ Len(sys.chat.accepted) < MaxAccepted
  /\ LET message == Strip(text)
         chat_message == [message |-> message,
                          timestamp |-> Len(sys.chat.accepted) + 1]
     IN sys' = IF ~connected \/ message = "" THEN sys
               ELSE [sys EXCEPT
                       !.chat.chat_history = AddToHistory(@, chat_message),
                       !.chat.accepted = Append(@, chat_message)]
  /\ UNCHANGED session

\* save_game_data, from auto_save_task or POST /admin/save.
SaveChatHistory ==
  /\ sys' = [sys EXCEPT !.chat.chat_file = LastN(sys.chat.chat_history, ChatLimit)]
  /\ UNCHANGED session

\* The shutdown event saves; the next process loads the file in __init__.
RestartServer ==
  /\ sys' = [sys EXCEPT
               !.chat.chat_file = LastN(sys.chat.chat_history, ChatLimit),
               !.chat.chat_history = LastN(sys.chat.chat_history, ChatLimit)]
  /\ UNCHANGED session

NextChat ==
  \/ \E connected \in BOOLEAN, text \in ChatTexts : HandleChatMessage(connected, text)
  \/ SaveChatHistory
  \/ RestartServer

SpecChat == Init /\ [][NextChat]_vars

\* C20: the chat history holds at most 50 entries, and they are the 50 most
\* recently accepted chat messages (all of them while there are fewer) in
\* the order of their arrival.
C20_LastFiftyAccepted ==
  /\ Len(sys.chat.chat_history) <= ChatLimit
  /\ sys.chat.chat_history = LastN(sys.chat.accepted, ChatLimit)

\* More than 50 messages have been accepted and the history has dropped the
\* earliest of them.
C20_MoreThanFiftyAccepted ==
  /\ Len(sys.chat.accepted) > ChatLimit + 1
  /\ Len(sys.chat.chat_history) = ChatLimit
  /\ sys.chat.chat_history[1].timestamp = Len(sys.chat.accepted) - ChatLimit + 1
  /\ sys.chat.chat_file = sys.chat.chat_history

\* ------------------------------------- quests and progress: the steps
\* Handlers run one at a time here: each changes the player before its
\* first await, and with one player id broadcast_to_others has nobody to
\* send to.
MaxHandled == 4
ProgressSocketSet == 1..ProgressSockets
QuestIdArgs == QuestIds \cup {"no_such_quest"}
QuestActions == {"start", "complete"}
\* One position in the city, the plains and the forest.
ProgressPositions == {<<0, 0>>, <<-300, 0>>, <<0, -300>>}

\* disconnect_player(player_id): the Player the dictionary holds for the id
\* is saved and removed, whichever socket it belongs to.
SavedAndRemoved(Q) ==
  IF Q.connected = 0 THEN Q
  ELSE [Q EXCEPT !.files = save_player_data(@, Q.player[Q.connected]),
                 !.connected = 0]

\* player.websocket.send_text in a handler run for socket s: a send to a
\* websocket that has gone raises, handle_websocket_message catches it,
\* disconnects the player and leaves its loop.
SendToPlayer(Q, s, msg) ==
  IF Q.ws[Q.connected] = "open"
  THEN [Q EXCEPT !.sent = msg,
                 !.started = IF msg.type = "quest_started"
                             THEN @ \cup {msg.quest_id} ELSE @]
  ELSE [SavedAndRemoved(Q) EXCEPT !.ws[s] = "closed"]

\* connect_player for a new websocket s, its welcome included.
progress_connect_player(Q, s) ==
  LET made == NewPlayer(QuestPlayer, load_player_data(Q.files, QuestPlayer),
                        NoQueryName)
      player == [made EXCEPT !.current_region = determine_region(made.x, made.z)]
  IN [Q EXCEPT !.ws[s] = "open", !.player[s] = player, !.connected = s,
               !.sent = [type |-> "player_connected"], !.added = 0]

progress_handle_player_movement(Q, s, x, z) ==
  IF Q.connected = 0 THEN Q
  ELSE LET o == Q.connected
           player == Q.player[o]
           new_region == determine_region(Num(x), Num(z))
           visited == HasElem(player.regions_visited, new_region)
           moved == [player EXCEPT !.x = Num(x), !.z = Num(z)]
       IN IF new_region = player.current_region
          THEN [Q EXCEPT !.player[o] = moved]
          ELSE LET entered ==
                     [moved EXCEPT
                        !.current_region = new_region,
                        !.regions_visited = IF visited THEN @ ELSE Append(@, new_region),
                        !.experience = IF visited THEN @ ELSE @ + 100]
                   region_change_data ==
                     [type |-> "region_changed",
                      old_region |-> player.current_region,
                      new_region |-> new_region,
                      experience_gained |->
                        IF ~HasElem(entered.regions_visited, new_region)
                        THEN 100 ELSE 0]
               IN SendToPlayer([Q EXCEPT !.player[o] = entered,
                                         !.added = entered.experience - player.experience],
                               s, region_change_data)

handle_quest_action(Q, s, action, quest_id) ==
  IF Q.connected = 0 \/ quest_id \notin QuestIds THEN Q
  ELSE LET o == Q.connected
           player == Q.player[o]
           quest == GAME_QUESTS[quest_id]
       IN CASE action = "start" ->
                 IF /\ player.level >= quest.level_required
                    /\ ~HasElem(player.quests_completed, quest_id)
                    /\ (quest.region_required = ""
                          \/ quest.region_required = player.current_region)
                 THEN SendToPlayer(
                        [Q EXCEPT !.player[o].experience = @ + 25,
                                  !.added = 25,
                                  !.bonuses[quest_id] = @ + 1],
                        s, [type |-> "quest_started", quest_id |-> quest_id,
                            experience_gained |-> 25])
                 ELSE Q
            [] action = "complete" ->
                 IF ~HasElem(player.quests_completed, quest_id)
                 THEN LET experience == player.experience + quest.experience_reward
                          new_level == (experience \div 1000) + 1
                          level_up == new_level > player.level
                      IN SendToPlayer(
                           [Q EXCEPT !.player[o].quests_completed = Append(@, quest_id),
                                     !.player[o].experience = experience,
                                     !.player[o].level = new_level,
                                     !.added = quest.experience_reward,
                                     !.rewards[quest_id] = @ + 1],
                           s, [type |-> "quest_completed", quest_id |-> quest_id,
                               experience_gained |-> quest.experience_reward,
                               level_up |-> level_up,
                               new_level |-> IF level_up THEN [py |-> new_level] ELSE PyNone])
                 ELSE Q
            [] OTHER -> Q

\* What every handler call starts from.
Received(Q) == [Q EXCEPT !.sent = NoSent, !.added = 0, !.handled = @ + 1]

ProgressConnect(s) ==
  /\ sys.progress.ws[s] = "new"
  /\ sys' = [sys EXCEPT !.progress = progress_connect_player(@, s)]
  /\ UNCHANGED session

\* The client of socket s goes away.
ProgressDrop(s) ==
  /\ sys.progress.ws[s] = "open"
  /\ sys' = [sys EXCEPT !.progress.ws[s] = "gone"]
  /\ UNCHANGED session

\* receive_text raises WebSocketDisconnect: disconnect_player(player_id).
ProgressDisconnect(s) ==
  /\ sys.progress.ws[s] = "gone"
  /\ sys' = [sys EXCEPT !.progress =
               [SavedAndRemoved(@) EXCEPT !.ws[s] = "closed", !.sent = NoSent,
                                          !.added = 0]]
  /\ UNCHANGED session

ProgressMove(s, pos) ==
  /\ sys.progress.ws[s] = "open"
  /\ sys.progress.handled < MaxHandled
  /\ sys' = [sys EXCEPT !.progress =
               progress_handle_player_movement(Received(@), s, pos[1], pos[2])]
  /\ UNCHANGED session

QuestAction(s, action, quest_id) ==
  /\ sys.progress.ws[s] = "open"
  /\ sys.progress.handled < MaxHandled
  /\ sys' = [sys EXCEPT !.progress =
               handle_quest_action(Received(@), s, action, quest_id)]
  /\ UNCHANGED session

NextProgress ==
  \/ \E s \in ProgressSocketSet : ProgressConnect(s)
  \/ \E s \in ProgressSocketSet : ProgressDrop(s)
  \/ \E s \in ProgressSocketSet : ProgressDisconnect(s)
  \/ \E s \in ProgressSocketSet, pos \in ProgressPositions : ProgressMove(s, pos)
  \/ \E s \in ProgressSocketSet, action \in QuestActions, quest_id \in QuestIdArgs :
       QuestAction(s, action, quest_id)

SpecProgress == Init /\ [][NextProgress]_vars

\* C21: whenever a message handler has finished, the connected player's
\* level equals experience // 1000 + 1.
C21_LevelFollowsExperience ==
  sys.progress.connected # 0
  => LET player == sys.progress.player[sys.progress.connected]
     IN player.level = (player.experience \div 1000) + 1

\* C22: the experience_gained of a region_changed message equals the
\* exploration experience the movement added to the player: 100 on the
\* first entry into the region, 0 on later ones.
C22_ExperienceGainedIsAdded ==
  sys.progress.sent.type = "region_changed"
  => sys.progress.sent.experience_gained = sys.progress.added

\* C23: each quest's experience reward is granted to the player at most
\* once, over any quest actions, disconnects and reconnects.
C23_RewardAtMostOnce ==
  \A q \in QuestIds : sys.progress.rewards[q] <= 1

\* C24: quest_completed is sent for a quest only if quest_started was sent
\* to the player for the same quest before.
C24_CompletedOnlyIfStarted ==
  sys.progress.sent.type = "quest_completed"
  => sys.progress.sent.quest_id \in sys.progress.started

\* C25: the 25 XP for starting a quest is granted at most once per quest.
C25_StartBonusAtMostOnce ==
  \A q \in QuestIds : sys.progress.bonuses[q] <= 1

\* --------------------------------------- the blackhole event: the steps
\* The players that call: level below and at the discovery requirement,
\* with or without the flower and the knowledge.
EventPlayers ==
  [username : {"arjuna", "bhima"}, level : {1, 5},
   sacred_flower : BOOLEAN, cosmic_convergence : BOOLEAN]
Hours == {0, 12}

\* The one caller of check_secret_area_discovery in the repository, main():
\* it sets secret_area_discovered after the check, whatever the result.
DiscoverSecretArea(player, hour) ==
  /\ sys' = [sys EXCEPT !.event =
               [check_secret_area_discovery(@, player, hour)
                  EXCEPT !.secret_area_discovered = TRUE]]
  /\ UNCHANGED session

\* The check alone, as a server would call it for a player.
CheckSecretAreaDiscovery(player, hour) ==
  /\ sys' = [sys EXCEPT !.event = check_secret_area_discovery(@, player, hour)]
  /\ UNCHANGED session

InitiateBossFight(player) ==
  /\ sys' = [sys EXCEPT !.event = initiate_boss_fight(@, player)]
  /\ UNCHANGED session

TriggerBlackholeEvent(player) ==
  /\ sys' = [sys EXCEPT !.event = trigger_blackhole_event(@, player.username)]
  /\ UNCHANGED session

NextEvent ==
  \/ \E player \in EventPlayers, hour \in Hours : DiscoverSecretArea(player, hour)
  \/ \E player \in EventPlayers, hour \in Hours : CheckSecretAreaDiscovery(player, hour)
  \/ \E player \in EventPlayers : InitiateBossFight(player)
  \/ \E player \in EventPlayers : TriggerBlackholeEvent(player)

SpecEvent == Init /\ [][NextEvent]_vars

\* C26: trigger_blackhole_event never succeeds while secret_area_discovered
\* or boss_defeated is false (neither flag is ever reset, and the call
\* changes neither, so they are read in the state the call leaves).
C26_TriggeredAfterBossDefeated ==
  Successful(sys.event.ret)
  => sys.event.secret_area_discovered /\ sys.event.boss_defeated
====
